---- MODULE Spec2Model ----
(***************************************************************************)
(* Fashion Product Analytics Dashboard (src/main.py).                      *)
(*                                                                         *)
(* One render pass of main(): file upload -> load_and_process_data ->      *)
(* create_filters -> apply_filters -> create_overview_metrics ->           *)
(* create_visualizations -> create_data_table.  A second specification,    *)
(* SpecFilters, applies apply_filters as a function to a cleaned table and *)
(* an arbitrary filter dictionary.                                         *)
(*                                                                         *)
(* Encoding of Python / pandas values:                                     *)
(*   - a table cell is a tagged record: Str(s) a string, Num(v) an int,    *)
(*     Float(v) a float of integral value v, NaN a missing value (float    *)
(*     nan); both kinds of number have k = "num";                          *)
(*   - a DataFrame is [cols |-> set of column names, rows |-> sequence of  *)
(*     functions from cols to cells]; row order is the DataFrame's order;  *)
(*   - a dict is a function whose DOMAIN is its key set;                   *)
(*   - a raw CSV cell is its text.                                         *)
(***************************************************************************)
EXTENDS Integers, Sequences, FiniteSets, TLC

VARIABLES pc, uploaded_file, df, filters, filtered_df, called, messages,
          metrics, views, display_columns, raised

vars == <<pc, uploaded_file, df, filters, filtered_df, called, messages,
          metrics, views, display_columns, raised>>

-----------------------------------------------------------------------------
(* Bounds of the model *)

\* the uploads hold every sequence of up to MaxRows catalogue lines, and the
\* selections of MaxRows + 1 different lines
MaxRows == 2

\* how many sidebar widgets the user has moved away from their default
MaxChanged == 1

\* slider positions offered besides the two ends: min + k*step, k <= MaxSliderSteps
MaxSliderSteps == 2

-----------------------------------------------------------------------------
(* Program constants *)

\* create_filters: slider bounds when the price column holds no number
FallbackPriceMin == 0

FallbackPriceMax == 1000

\* create_filters: slider step
SliderStep == 10

\* create_data_table: at most this many default display columns
MaxDefaultColumns == 6

-----------------------------------------------------------------------------
(* Values *)

NaN == [k |-> "nan"]

Str(s) == [k |-> "str", s |-> s]

Num(v) == [k |-> "num", v |-> v]

\* a float (a cell of a float64 column)
Float(v) == [k |-> "num", v |-> v, float |-> TRUE]

IsFloat(c) == c.k = "num" /\ "float" \in DOMAIN c

\* a cell of a column cast to float64: its ints become floats
AsFloat(c) == IF c.k = "num" THEN Float(c.v) ELSE c

\* Python's None (a missing dict entry, a failed load)
None == [k |-> "none"]

\* pd.isna / pd.notna on a cell
IsNa(c) == c.k = "nan"

NotNa(c) == ~IsNa(c)

\* the filter sentinel
All == Str("All")

\* the fillna sentinel
Unknown == Str("Unknown")

\* Python truthiness of a scalar: None, "" and 0 are falsy; nan is truthy
Truthy(v) ==
    CASE v.k = "none" -> FALSE
      [] v.k = "str" -> v.s # ""
      [] v.k = "num" -> v.v # 0
      [] OTHER -> TRUE

\* the text an f-string gives for a cell
CellText(c) ==
    IF c.k = "str" THEN c.s
    ELSE IF IsFloat(c) THEN ToString(c.v) \o ".0"
    ELSE IF c.k = "num" THEN ToString(c.v)
    ELSE "nan"

-----------------------------------------------------------------------------
(* Sequence helpers *)

Range(s) == {s[i] : i \in 1..Len(s)}

\* boolean-mask indexing df[mask]: the rows at the indices in keep, order kept
SeqFilter(s, keep) ==
    LET kept == SelectSeq([i \in 1..Len(s) |-> i], LAMBDA i : i \in keep)
    IN [j \in 1..Len(kept) |-> s[kept[j]]]

\* Series.unique(): distinct values in order of first appearance
UniqueSeq(s) ==
    SeqFilter(s, {i \in 1..Len(s) : \A j \in 1..(i - 1) : s[j] # s[i]})

RECURSIVE SumSeq(_)
SumSeq(s) == IF s = <<>> THEN 0 ELSE Head(s) + SumSeq(Tail(s))

SetMin(S) == CHOOSE x \in S : \A y \in S : x <= y

SetMax(S) == CHOOSE x \in S : \A y \in S : x >= y

Min2(a, b) == IF a <= b THEN a ELSE b

\* df[col] as a sequence of cells
Column(t, col) == [i \in 1..Len(t.rows) |-> t.rows[i][col]]

\* df[mask]
Mask(t, keep) == [t EXCEPT !.rows = SeqFilter(t.rows, keep)]

-----------------------------------------------------------------------------
(* Uploads *)

\* main: expected_columns
ColumnOrder == <<"name", "brand_name", "category_main", "category_sub",
                 "price_amount", "color", "availability", "price_point">>

Columns == Range(ColumnOrder)

\* the header rows of the uploads: every column, any one column left out, or
\* a three-column sheet
Schemas ==
    {Columns} \cup {Columns \ {c} : c \in Columns}
              \cup {{"name", "brand_name", "category_main"}}

\* the CSV texts pandas reads as a missing value (a subset of its na_values)
NaTexts == {"", "NaN", "N/A"}

\* the CSV texts that parse as numbers, with their values
NumericText == ("10" :> 10) @@ ("20" :> 20) @@ ("30" :> 30)

\* the product lines an upload may contain, one text per column of ColumnOrder
CatalogueLines == <<
    <<"Tee",   "A", "Men",     "Tops", "10",  "Red",  "In Stock",     "Low">>,
    <<"Jeans", "A", "Men-Low", "",     "20",  "Blue", "Out of Stock", "High">>,
    <<"Bag",   "B", "Women",   "Bags", "30",  "",     "in stock",     "Low">>,
    <<"Cap",   "",  "Women",   "Hats", "abc", "Red",  "",             "">>,
    <<"Sock",  "B", "Men",     "Tops", "",    "Blue", "In Stock",     "High">> >>

Catalogue == Range(CatalogueLines)

ColumnIndex(col) == CHOOSE i \in 1..Len(ColumnOrder) : ColumnOrder[i] = col

\* a CSV line of the catalogue under a header
RawLine(cells, cols) == [c \in cols |-> cells[ColumnIndex(c)]]

\* every sequence of up to MaxRows lines
ShortTables ==
    UNION {[1..n -> Catalogue] : n \in 0..MaxRows}

\* the tables of one line more: different lines, in the order of the catalogue
LongTables ==
    {SeqFilter(CatalogueLines, chosen) :
        chosen \in {c \in SUBSET (1..Len(CatalogueLines)) : Cardinality(c) = MaxRows + 1}}

RawTables == ShortTables \cup LongTables

\* an uploaded file: whether its bytes parse, its header and its lines
Uploads ==
    {[ok |-> ok, cols |-> cols, rows |-> [i \in 1..Len(t) |-> RawLine(t[i], cols)]] :
        ok \in BOOLEAN, cols \in Schemas, t \in RawTables}

-----------------------------------------------------------------------------
(* load_and_process_data *)

\* pd.read_csv on one column: missing texts become NaN; a column whose other
\* texts are all numeric becomes numeric (int64, or float64 when a text is
\* missing), any other column keeps its strings
ReadColumn(texts) ==
    LET numeric == \A i \in 1..Len(texts) :
                       texts[i] \in NaTexts \cup DOMAIN NumericText
        missing == \E i \in 1..Len(texts) : texts[i] \in NaTexts
    IN [i \in 1..Len(texts) |->
           IF texts[i] \in NaTexts THEN NaN
           ELSE IF numeric /\ missing THEN Float(NumericText[texts[i]])
           ELSE IF numeric THEN Num(NumericText[texts[i]])
           ELSE Str(texts[i])]

read_csv(file) ==
    LET col(c) == ReadColumn([i \in 1..Len(file.rows) |-> file.rows[i][c]])
    IN [cols |-> file.cols,
        rows |-> [i \in 1..Len(file.rows) |-> [c \in file.cols |-> col(c)[i]]]]

\* pd.to_numeric(errors='coerce') on one cell
to_numeric(c) ==
    IF c.k = "num" THEN c
    ELSE IF c.k = "str" /\ c.s \in DOMAIN NumericText THEN Num(NumericText[c.s])
    ELSE NaN

\* fillna left out: the cell as read
fillna_skipped(c) == c

\* Series.fillna('Unknown') on one cell
fillna(c) == IF IsNa(c) THEN Unknown ELSE c

categorical_cols ==
    {"brand_name", "category_main", "category_sub", "color", "price_point", "availability"}

\* the cleaning of one cell of column col
CleanCell(col, c) ==
    IF col = "price_amount" THEN to_numeric(c)
    ELSE IF col \in categorical_cols THEN fillna(c)
    ELSE c

\* the try body: the cleaned table; pd.to_numeric gives a float64 column when
\* a price is missing after the coercion
CleanTable(t) ==
    LET floats == /\ "price_amount" \in t.cols
                  /\ \E i \in 1..Len(t.rows) : IsNa(to_numeric(t.rows[i]["price_amount"]))
    IN [t EXCEPT !.rows = [i \in 1..Len(t.rows) |->
           [c \in t.cols |->
               IF c = "price_amount" /\ floats THEN AsFloat(CleanCell(c, t.rows[i][c]))
               ELSE CleanCell(c, t.rows[i][c])]]]

\* the except branch returning what was parsed so far instead of None
load_and_process_data_partial(file) == CleanTable(read_csv(file))

\* None when read_csv raises, else the cleaned DataFrame
load_and_process_data(file) ==
    IF ~file.ok THEN None ELSE CleanTable(read_csv(file))

-----------------------------------------------------------------------------
(* create_filters *)

\* the keys of the filters dict, in the order create_filters adds them
FilterKeys == {"brand", "category_main", "category_sub", "price_range",
               "price_point", "color", "availability"}

\* the selectbox filters
SingleChoiceKeys == {"brand", "category_main", "category_sub", "price_point",
                     "availability"}

\* the DataFrame column each filter reads
FilterColumn(key) ==
    CASE key = "brand" -> "brand_name"
      [] key = "price_range" -> "price_amount"
      [] OTHER -> key

\* ['All'] + sorted(df[col].unique().tolist()), as the set of its entries
Options(t, key) == {All} \cup Range(Column(t, FilterColumn(key)))

\* the numbers of df['price_amount'] (min, max and mean skip NaN)
Prices(t) == {c.v : c \in {x \in Range(Column(t, "price_amount")) : x.k = "num"}}

\* df['price_amount'].isna().all()
AllPricesNa(t) == \A c \in Range(Column(t, "price_amount")) : IsNa(c)

price_min(t) == IF ~AllPricesNa(t) THEN SetMin(Prices(t)) ELSE FallbackPriceMin

price_max(t) == IF ~AllPricesNa(t) THEN SetMax(Prices(t)) ELSE FallbackPriceMax

\* st.sidebar.slider raises StreamlitAPIException unless min_value, max_value
\* and step are all ints or all floats (step is 10.0 and the bounds are
\* float(...) of a price, or the ints 0 and 1000 when no price is a number),
\* and unless min_value is less than max_value (the bounds are equal when the
\* column holds one distinct price)
SliderRaises(t) ==
    /\ "price_amount" \in t.cols
    /\ \/ AllPricesNa(t)
       \/ price_min(t) = price_max(t)

\* the positions the two slider handles are moved to: the ends, and the first
\* steps from the lower end
SliderStops(t) ==
    {price_min(t), price_max(t)} \cup
    {p \in {price_min(t) + n * SliderStep : n \in 0..MaxSliderSteps} : p <= price_max(t)}

\* what a widget can return
WidgetChoices(t, key) ==
    CASE key \in SingleChoiceKeys -> Options(t, key)
      [] key = "color" -> SUBSET Options(t, key)
      [] key = "price_range" ->
            {range \in SliderStops(t) \X SliderStops(t) : range[1] <= range[2]}

\* what a widget returns before the user touches it: the selectbox's first
\* option, the multiselect's default, the slider's value
WidgetDefault(t, key) ==
    CASE key \in SingleChoiceKeys -> All
      [] key = "color" -> {All}
      [] key = "price_range" -> <<price_min(t), price_max(t)>>

\* the filters create_filters has an entry for: those whose column is present
PresentKeys(t) == {key \in FilterKeys : FilterColumn(key) \in t.cols}

\* the dict create_filters returns when no widget was touched; None when the
\* slider raises
DefaultFilters(t) ==
    IF SliderRaises(t) THEN None ELSE [key \in PresentKeys(t) |-> WidgetDefault(t, key)]

RECURSIVE Selections(_, _, _)
\* the dicts over keys in which at most budget widgets differ from their default
Selections(t, keys, budget) ==
    IF keys = {} THEN {<<>>}
    ELSE LET key == CHOOSE x \in keys : TRUE
             dflt == WidgetDefault(t, key)
             kept == {(key :> dflt) @@ rest : rest \in Selections(t, keys \ {key}, budget)}
             moved == IF budget = 0 THEN {}
                      ELSE {(key :> v) @@ rest :
                               v \in WidgetChoices(t, key) \ {dflt},
                               rest \in Selections(t, keys \ {key}, budget - 1)}
         IN kept \cup moved

\* every dict create_filters can return for the table; none when the slider
\* raises
create_filters(t) ==
    IF SliderRaises(t) THEN {} ELSE Selections(t, PresentKeys(t), MaxChanged)

-----------------------------------------------------------------------------
(* apply_filters *)

\* filters.get(key)
Get(fs, key) == IF key \in DOMAIN fs THEN fs[key] ELSE None

\* Series == value, elementwise: NaN equals nothing
PyEq(c, v) == NotNa(c) /\ NotNa(v) /\ c = v

\* min_price <= cell <= max_price, elementwise: NaN compares false
InRange(c, range) == c.k = "num" /\ c.v >= range[1] /\ c.v <= range[2]

\* the outcome of a call: the exception raised ("none" when it returns) and
\* the DataFrame held when it ended
Outcome(exc, t) == [exc |-> exc, df |-> t]

\* one selectbox filter: if filters.get(key) and filters[key] != 'All':
\*     filtered_df = filtered_df[filtered_df[col] == filters[key]]
SingleChoiceFilter(r, fs, key) ==
    LET col == FilterColumn(key) IN
    IF r.exc # "none" THEN r
    ELSE IF Truthy(Get(fs, key)) /\ fs[key] # All
    THEN IF col \notin r.df.cols THEN Outcome("KeyError", r.df)
         ELSE Outcome("none",
                  Mask(r.df, {i \in 1..Len(r.df.rows) : PyEq(r.df.rows[i][col], fs[key])}))
    ELSE r

\* if filters.get('price_range') and 'price_amount' in filtered_df.columns
PriceRangeFilter(r, fs) ==
    IF r.exc # "none" THEN r
    ELSE IF "price_range" \in DOMAIN fs /\ Len(fs["price_range"]) > 0
            /\ "price_amount" \in r.df.cols
    THEN Outcome("none",
             Mask(r.df, {i \in 1..Len(r.df.rows) :
                            InRange(r.df.rows[i]["price_amount"], fs["price_range"])}))
    ELSE r

\* if filters.get('color') and 'All' not in filters['color']
ColorFilter(r, fs) ==
    IF r.exc # "none" THEN r
    ELSE IF "color" \in DOMAIN fs /\ fs["color"] # {} /\ All \notin fs["color"]
    THEN IF "color" \notin r.df.cols THEN Outcome("KeyError", r.df)
         ELSE Outcome("none",
                  Mask(r.df, {i \in 1..Len(r.df.rows) :
                                 r.df.rows[i]["color"] \in fs["color"]}))
    ELSE r

\* the filters in the order of the source, each on the result of the last
apply_filters(t, fs) ==
    LET s1 == SingleChoiceFilter(Outcome("none", t), fs, "brand")
        s2 == SingleChoiceFilter(s1, fs, "category_main")
        s3 == SingleChoiceFilter(s2, fs, "category_sub")
        s4 == PriceRangeFilter(s3, fs)
        s5 == SingleChoiceFilter(s4, fs, "price_point")
        s6 == ColorFilter(s5, fs)
    IN SingleChoiceFilter(s6, fs, "availability")

-----------------------------------------------------------------------------
(* create_overview_metrics *)

\* the availability texts of the catalogue that contain 'in stock' when
\* lower-cased (str.contains('in stock', case=False))
InStockTexts == {"In Stock", "in stock"}

\* str.contains(..., na=False) on one cell
ContainsInStock(c) == c.k = "str" /\ c.s \in InStockTexts

\* df['price_amount'].mean(): NaN over no numbers, else the sum and the count
\* of the numbers (the quotient is kept exact)
Mean(cells) ==
    LET nums == SelectSeq(cells, LAMBDA c : c.k = "num")
    IN IF nums = <<>> THEN NaN
       ELSE [k |-> "mean", sum |-> SumSeq([i \in 1..Len(nums) |-> nums[i].v]),
             n |-> Len(nums)]

\* the metrics shown, by label; a metric whose column is absent is not shown
create_overview_metrics(t) ==
    LET shown == {"Total Products"}
                 \cup (IF "brand_name" \in t.cols THEN {"Unique Brands"} ELSE {})
                 \cup (IF "price_amount" \in t.cols THEN {"Average Price"} ELSE {})
                 \cup (IF "availability" \in t.cols THEN {"In Stock"} ELSE {})
    IN [label \in shown |->
           CASE label = "Total Products" -> Num(Len(t.rows))
             [] label = "Unique Brands" ->
                   Num(Cardinality({c \in Range(Column(t, "brand_name")) : NotNa(c)}))
             [] label = "Average Price" ->
                   LET avg_price == Mean(Column(t, "price_amount"))
                   IN IF ~IsNa(avg_price) THEN avg_price ELSE Str("N/A")
             [] label = "In Stock" ->
                   Num(Cardinality({i \in 1..Len(t.rows) :
                                       ContainsInStock(t.rows[i]["availability"])}))]

-----------------------------------------------------------------------------
(* create_visualizations: category x price point *)

VizTypes == {"Grouped Bar Chart", "Stacked Bar Chart", "Sunburst Chart",
             "Treemap", "Bubble Chart"}

\* a cross-tabulation that marks the pairs present instead of counting rows
crosstab_presence(t) ==
    LET kept == {i \in 1..Len(t.rows) :
                    NotNa(t.rows[i]["category_main"]) /\ NotNa(t.rows[i]["price_point"])}
        index == {t.rows[i]["category_main"] : i \in kept}
        columns == {t.rows[i]["price_point"] : i \in kept}
    IN [index |-> index, columns |-> columns,
        cell |-> [pair \in index \X columns |->
                     IF \E i \in kept : /\ t.rows[i]["category_main"] = pair[1]
                                         /\ t.rows[i]["price_point"] = pair[2]
                     THEN 1 ELSE 0]]

\* pd.crosstab(df['category_main'], df['price_point']): rows with a NaN in
\* either column are dropped; one row per category and one column per price
\* point left, each cell the number of rows with that pair
crosstab(t) ==
    LET kept == {i \in 1..Len(t.rows) :
                    NotNa(t.rows[i]["category_main"]) /\ NotNa(t.rows[i]["price_point"])}
        index == {t.rows[i]["category_main"] : i \in kept}
        columns == {t.rows[i]["price_point"] : i \in kept}
    IN [index |-> index, columns |-> columns,
        cell |-> [pair \in index \X columns |->
                     Cardinality({i \in kept :
                         /\ t.rows[i]["category_main"] = pair[1]
                         /\ t.rows[i]["price_point"] = pair[2]})]]

\* the child nodes of one category: one per price point of its rows
SunburstChildren(cat_data, category) ==
    LET price_points == SelectSeq(UniqueSeq(Column(cat_data, "price_point")), NotNa)
    IN [j \in 1..Len(price_points) |->
           [ids |-> CellText(category) \o "-" \o CellText(price_points[j]),
            labels |-> CellText(price_points[j]),
            parents |-> CellText(category),
            values |-> Len(Mask(cat_data, {i \in 1..Len(cat_data.rows) :
                               PyEq(cat_data.rows[i]["price_point"], price_points[j])}).rows)]]

\* the parent node of one category
SunburstParent(cat_data, category) ==
    [ids |-> CellText(category), labels |-> CellText(category), parents |-> "",
     values |-> Len(cat_data.rows)]

RECURSIVE SunburstNodes(_, _)
\* the loop over df['category_main'].unique()
SunburstNodes(t, categories) ==
    IF categories = <<>> THEN <<>>
    ELSE LET category == Head(categories)
             cat_data == Mask(t, {i \in 1..Len(t.rows) :
                                     PyEq(t.rows[i]["category_main"], category)})
             nodes == IF NotNa(category)
                      THEN Append(SunburstChildren(cat_data, category),
                                  SunburstParent(cat_data, category))
                      ELSE <<>>
         IN nodes \o SunburstNodes(t, Tail(categories))

sunburst_data(t) == SunburstNodes(t, UniqueSeq(Column(t, "category_main")))

-----------------------------------------------------------------------------
(* create_visualizations: the top-10 views *)

\* .head(10)
TopK == 10

\* the group labels of the wide tables
Labels == <<"B01", "B02", "B03", "B04", "B05", "B06",
            "B07", "B08", "B09", "B10", "B11", "B12">>

\* the brand and colour texts of the model in ascending (code point) order,
\* the order in which groupby lists its keys
KeyOrder == <<"A", "B">> \o Labels \o <<"Blue", "Red", "Unknown">>

\* head(n) that forgets to cut
head_all(s, n) == s

\* Series.head(n)
head(s, n) == SubSeq(s, 1, Min2(n, Len(s)))

\* a count or a mean as a fraction: numerator and denominator
MetricNum(v) == IF v.k = "num" THEN v.v ELSE v.sum

MetricDen(v) == IF v.k = "num" THEN 1 ELSE v.n

\* a > b on two metrics that are numbers
MetricGt(a, b) == MetricNum(a) * MetricDen(b) > MetricNum(b) * MetricDen(a)

\* the entries as a set
Entries(entries) == {entries[i] : i \in 1..Len(entries)}

RECURSIVE DescendingOrders(_)
\* every descending order of a set of entries: a greatest entry first, then
\* any descending order of the others.  Series.sort_values sorts with
\* kind='quicksort', which does not fix the order of equal values, so each
\* of these is an order the sort may return.
DescendingOrders(S) ==
    IF S = {} THEN {<<>>}
    ELSE UNION {{<<e>> \o rest : rest \in DescendingOrders(S \ {e})} :
                   e \in {x \in S : \A y \in S : ~MetricGt(y.value, x.value)}}

\* Series.sort_values(ascending=False): the orders it may return; NaN values
\* go last, in the order they had
sort_values_desc(entries) ==
    {sorted \o SelectSeq(entries, LAMBDA e : IsNa(e.value)) :
        sorted \in DescendingOrders(Entries(SelectSeq(entries, LAMBDA e : NotNa(e.value))))}

\* Series.value_counts(): the rows per value (NaN left out), most frequent
\* first, as a sequence of (key, value) entries; every order it may return
value_counts(cells) ==
    LET keys == SelectSeq(UniqueSeq(cells), NotNa)
    IN sort_values_desc([j \in 1..Len(keys) |->
           [key |-> keys[j],
            value |-> Num(Cardinality({i \in 1..Len(cells) : cells[i] = keys[j]}))]])

\* df.groupby(col)['price_amount'].mean(): one entry per key, keys ascending
groupby_mean(t, col) ==
    LET present == Range(Column(t, col))
        keys == SelectSeq([j \in 1..Len(KeyOrder) |-> Str(KeyOrder[j])],
                          LAMBDA c : c \in present)
    IN [j \in 1..Len(keys) |->
           [key |-> keys[j],
            value |-> Mean(Column(Mask(t, {i \in 1..Len(t.rows) :
                                              PyEq(t.rows[i][col], keys[j])}),
                                  "price_amount"))]]

\* the view a condition of the source builds, under its name, cut to its
\* first TopK entries, for each order its sort may return; or nothing
ViewIf(cond, name, orders) ==
    IF cond THEN {name :> head(sorted, TopK) : sorted \in orders} ELSE {<<>>}

\* brand_counts, brand_avg_price, sub_category_counts, color_counts,
\* color_price: every outcome, each sort taking equal values in an order of
\* its own
TopViews(t) ==
    LET has(col) == col \in t.cols
        brand_counts == ViewIf(has("brand_name"), "brand_counts",
                               value_counts(Column(t, "brand_name")))
        brand_avg_price == ViewIf(has("brand_name") /\ has("price_amount"),
                                  "brand_avg_price",
                                  sort_values_desc(groupby_mean(t, "brand_name")))
        sub_category_counts == ViewIf(has("category_main") /\ has("category_sub"),
                                      "sub_category_counts",
                                      value_counts(Column(t, "category_sub")))
        color_counts == ViewIf(has("color"), "color_counts",
                               value_counts(Column(t, "color")))
        color_price == ViewIf(has("color") /\ has("price_amount"), "color_price",
                              sort_values_desc(groupby_mean(t, "color")))
    IN {a @@ b @@ c @@ d @@ e :
           a \in brand_counts, b \in brand_avg_price, c \in sub_category_counts,
           d \in color_counts, e \in color_price}

\* the category x price point views for the chosen chart kind
CategoryPriceViews(t, viz_type) ==
    IF "category_main" \in t.cols /\ "price_point" \in t.cols
    THEN ("category_price_data" :> crosstab(t))
         @@ (IF viz_type = "Sunburst Chart"
             THEN ("sunburst_data" :> sunburst_data(t)) ELSE <<>>)
    ELSE <<>>

\* the aggregate views create_visualizations can build, by name: for every
\* chart kind the user may choose and every order the sorts may take ties in
create_visualizations(t) ==
    LET top == TopViews(t)
        category_price == {CategoryPriceViews(t, viz_type) : viz_type \in VizTypes}
    IN {a @@ b : a \in top, b \in category_price}

-----------------------------------------------------------------------------
(* create_data_table *)

DefaultDisplay ==
    <<"name", "brand_name", "category_main", "price_amount", "color", "availability">>

\* [...][:min(6, len(df.columns))]
default_columns(t) ==
    SubSeq(DefaultDisplay, 1, Min2(MaxDefaultColumns, Cardinality(t.cols)))

\* st.multiselect raises when a default is not among its options
MultiselectRaises(t) == ~(Range(default_columns(t)) \subseteq t.cols)

\* a selection of two columns picked by hand
PickedColumns == <<"name", "color">>

\* the selections st.multiselect returns that the model follows: the default,
\* none (the selection cleared: `if display_columns:` is false and nothing is
\* rendered), every column, and the two picked columns where the table has them
DisplayChoices(t) ==
    {default_columns(t), <<>>, SelectSeq(ColumnOrder, LAMBDA c : c \in t.cols)}
    \cup (IF Range(PickedColumns) \subseteq t.cols THEN {PickedColumns} ELSE {})

-----------------------------------------------------------------------------
(* main: one render pass *)

Init ==
    /\ pc = "start"
    /\ uploaded_file = None
    /\ df = None
    /\ filters = <<>>
    /\ filtered_df = None
    /\ called = {}
    /\ messages = {}
    /\ metrics = <<>>
    /\ views = <<>>
    /\ display_columns = <<>>
    /\ raised = "none"

\* st.file_uploader returns None: the expected data structure is shown
NoUpload ==
    /\ pc = "start"
    /\ uploaded_file' = None
    /\ messages' = messages \cup {"info: please upload"}
    /\ pc' = "done"
    /\ UNCHANGED <<df, filters, filtered_df, called, metrics, views,
                   display_columns, raised>>

\* st.file_uploader returns a file
FileUploader ==
    /\ pc = "start"
    /\ \E file \in Uploads : uploaded_file' = file
    /\ pc' = "load"
    /\ UNCHANGED <<df, filters, filtered_df, called, messages, metrics, views,
                   display_columns, raised>>

\* df = load_and_process_data(uploaded_file); if df is not None: ...
LoadData ==
    /\ pc = "load"
    /\ df' = load_and_process_data(uploaded_file)
    /\ called' = called \cup {"load_and_process_data"}
    /\ IF df' = None
       THEN /\ messages' = messages \cup {"error: loading data"}
            /\ pc' = "done"
       ELSE /\ messages' = messages \cup {"success: loaded"}
            /\ pc' = "filters"
    /\ UNCHANGED <<uploaded_file, filters, filtered_df, metrics, views,
                   display_columns, raised>>

\* filters = create_filters(df)
CreateFilters ==
    /\ pc = "filters"
    /\ called' = called \cup {"create_filters"}
    /\ IF SliderRaises(df)
       THEN /\ raised' = "StreamlitAPIException"
            /\ pc' = "done"
            /\ UNCHANGED filters
       ELSE /\ \E fs \in create_filters(df) : filters' = fs
            /\ pc' = "apply"
            /\ UNCHANGED raised
    /\ UNCHANGED <<uploaded_file, df, filtered_df, messages, metrics, views,
                   display_columns>>

\* filtered_df = apply_filters(df, filters), and the count message
ApplyFilters ==
    /\ pc = "apply"
    /\ called' = called \cup {"apply_filters"}
    /\ LET r == apply_filters(df, filters) IN
       IF r.exc # "none"
       THEN /\ raised' = r.exc
            /\ pc' = "done"
            /\ UNCHANGED <<filtered_df, messages>>
       ELSE /\ filtered_df' = r.df
            /\ messages' = IF Len(r.df.rows) # Len(df.rows)
                           THEN messages \cup {"info: showing filtered"}
                           ELSE messages
            /\ pc' = "metrics"
            /\ UNCHANGED raised
    /\ UNCHANGED <<uploaded_file, df, filters, metrics, views, display_columns>>

\* create_overview_metrics(filtered_df)
CreateOverviewMetrics ==
    /\ pc = "metrics"
    /\ metrics' = create_overview_metrics(filtered_df)
    /\ called' = called \cup {"create_overview_metrics"}
    /\ pc' = "viz"
    /\ UNCHANGED <<uploaded_file, df, filters, filtered_df, messages, views,
                   display_columns, raised>>

\* if len(filtered_df) > 0: create_visualizations(filtered_df)
CreateVisualizations ==
    /\ pc = "viz"
    /\ Len(filtered_df.rows) > 0
    /\ \E built \in create_visualizations(filtered_df) : views' = built
    /\ called' = called \cup {"create_visualizations"}
    /\ pc' = "table"
    /\ UNCHANGED <<uploaded_file, df, filters, filtered_df, messages, metrics,
                   display_columns, raised>>

\* else: st.warning("No data available with current filters...")
NoDataWarning ==
    /\ pc = "viz"
    /\ ~(Len(filtered_df.rows) > 0)
    /\ messages' = messages \cup {"warning: no data"}
    /\ pc' = "table"
    /\ UNCHANGED <<uploaded_file, df, filters, filtered_df, called, metrics, views,
                   display_columns, raised>>

\* create_data_table(filtered_df)
CreateDataTable ==
    /\ pc = "table"
    /\ called' = called \cup {"create_data_table"}
    /\ IF MultiselectRaises(filtered_df)
       THEN /\ raised' = "StreamlitAPIException"
            /\ UNCHANGED display_columns
       ELSE /\ \E selection \in DisplayChoices(filtered_df) : display_columns' = selection
            /\ UNCHANGED raised
    /\ pc' = "done"
    /\ UNCHANGED <<uploaded_file, df, filters, filtered_df, messages, metrics, views>>

\* the next interaction runs the script again from the top
Rerun ==
    /\ pc = "done"
    /\ pc' = "start"
    /\ uploaded_file' = None
    /\ df' = None
    /\ filters' = <<>>
    /\ filtered_df' = None
    /\ called' = {}
    /\ messages' = {}
    /\ metrics' = <<>>
    /\ views' = <<>>
    /\ display_columns' = <<>>
    /\ raised' = "none"

Next ==
    \/ NoUpload
    \/ FileUploader
    \/ LoadData
    \/ CreateFilters
    \/ ApplyFilters
    \/ CreateOverviewMetrics
    \/ CreateVisualizations
    \/ NoDataWarning
    \/ CreateDataTable
    \/ Rerun

Spec == Init /\ [][Next]_vars

-----------------------------------------------------------------------------
(* apply_filters called as a function *)

\* the cleaned tables load_and_process_data returns for uploads of up to
\* MaxRows lines
CleanTables ==
    {load_and_process_data(file) :
        file \in {u \in Uploads : u.ok /\ Len(u.rows) <= MaxRows}}

\* the cleaned values a column of the catalogue takes
CatalogueValues(col) ==
    {fillna(IF line[ColumnIndex(col)] \in NaTexts THEN NaN
            ELSE Str(line[ColumnIndex(col)])) : line \in Catalogue}

\* the price bounds a caller passes
ArgPrices == {10, 15, 20, 30}

\* the values a caller may pass under a key, whether or not the table has the column
ArgChoices(key) ==
    CASE key \in SingleChoiceKeys -> {All} \cup CatalogueValues(FilterColumn(key))
      [] key = "color" -> SUBSET ({All} \cup CatalogueValues("color"))
      [] key = "price_range" -> {range \in ArgPrices \X ArgPrices : range[1] <= range[2]}

RECURSIVE Arguments(_, _, _)
\* the dicts that differ from DefaultFilters(t) in at most budget keys: an entry
\* given another value, an entry removed, or an entry added for an absent column
Arguments(t, keys, budget) ==
    IF keys = {} THEN {<<>>}
    ELSE LET key == CHOOSE x \in keys : TRUE
             present == key \in PresentKeys(t)
             kept == {IF present THEN (key :> WidgetDefault(t, key)) @@ rest ELSE rest :
                         rest \in Arguments(t, keys \ {key}, budget)}
             values == IF present THEN ArgChoices(key) \ {WidgetDefault(t, key)}
                       ELSE ArgChoices(key)
             moved == IF budget = 0 THEN {}
                      ELSE {(key :> v) @@ rest :
                               v \in values, rest \in Arguments(t, keys \ {key}, budget - 1)}
                           \cup (IF present THEN Arguments(t, keys \ {key}, budget - 1)
                                 ELSE {})
         IN kept \cup moved

InitFilters ==
    /\ pc = "call"
    /\ df \in CleanTables
    /\ filters \in Arguments(df, FilterKeys, MaxChanged)
    /\ uploaded_file = None
    /\ filtered_df = None
    /\ called = {}
    /\ messages = {}
    /\ metrics = <<>>
    /\ views = <<>>
    /\ display_columns = <<>>
    /\ raised = "none"

\* apply_filters working on the table it was given, without df.copy()
CallApplyFilters_in_place ==
    /\ pc = "call"
    /\ LET r == apply_filters(df, filters) IN
          /\ raised' = r.exc
          /\ filtered_df' = IF r.exc = "none" THEN r.df ELSE None
          /\ df' = IF r.exc = "none" THEN r.df ELSE df
    /\ called' = called \cup {"apply_filters"}
    /\ pc' = "returned"
    /\ UNCHANGED <<uploaded_file, filters, messages, metrics, views, display_columns>>

\* filtered_df = apply_filters(df, filters)
CallApplyFilters ==
    /\ pc = "call"
    /\ LET r == apply_filters(df, filters) IN
          /\ raised' = r.exc
          /\ filtered_df' = IF r.exc = "none" THEN r.df ELSE None
    /\ called' = called \cup {"apply_filters"}
    /\ pc' = "returned"
    /\ UNCHANGED <<uploaded_file, df, filters, messages, metrics, views, display_columns>>

NextFilters == CallApplyFilters

SpecFilters == InitFilters /\ [][NextFilters]_vars

-----------------------------------------------------------------------------
(* Properties *)

\* a dict without one key
Without(fs, key) == [x \in DOMAIN fs \ {key} |-> fs[x]]

RECURSIVE SumOver(_, _)
\* the sum of f over the set S of its arguments
SumOver(f, S) ==
    IF S = {} THEN 0
    ELSE LET x == CHOOSE y \in S : TRUE IN f[x] + SumOver(f, S \ {x})

\* the Filter Engine contract of one row: every constraint of the filter set
\* on a column of the table holds (single choice other than 'All': equality;
\* price range: min <= price <= max; colours without 'All': membership)
Satisfies(row, cols, fs) ==
    /\ \A key \in SingleChoiceKeys \cap DOMAIN fs :
          (FilterColumn(key) \in cols /\ fs[key] # All)
              => row[FilterColumn(key)] = fs[key]
    /\ ("price_range" \in DOMAIN fs /\ "price_amount" \in cols)
          => /\ row["price_amount"].k = "num"
             /\ fs["price_range"][1] <= row["price_amount"].v
             /\ row["price_amount"].v <= fs["price_range"][2]
    /\ ("color" \in DOMAIN fs /\ "color" \in cols /\ All \notin fs["color"])
          => row["color"] \in fs["color"]

\* C1: with the filter set create_filters produces by default, apply_filters
\* returns the cleaned table row for row, missing prices included.
C1_DefaultFiltersKeepEveryRow ==
    (pc = "metrics" /\ filters = DefaultFilters(df)) => filtered_df = df

\* C2: for every table and filter set, apply_filters returns exactly the
\* subsequence of the input rows that satisfy every constraint at once.
C2_OutputIsSatisfyingSubsequence ==
    pc = "returned" =>
        /\ raised = "none"
        /\ filtered_df # None
        /\ filtered_df.cols = df.cols
        /\ filtered_df.rows =
               SelectSeq(df.rows, LAMBDA row : Satisfies(row, df.cols, filters))

\* C3: a colour selection holding 'All' removes no rows; any other selection,
\* the empty one included, keeps exactly the rows whose colour is selected.
C3_ColorSelection ==
    LET others == apply_filters(df, Without(filters, "color")) IN
    (/\ pc = "returned"
     /\ "color" \in DOMAIN filters
     /\ "color" \in df.cols
     /\ others.exc = "none") =>
        /\ raised = "none"
        /\ filtered_df # None
        /\ filtered_df.rows =
               IF All \in filters["color"] THEN others.df.rows
               ELSE SelectSeq(others.df.rows, LAMBDA row : row["color"] \in filters["color"])

\* C4: a filter entry whose column is absent from the table is a no-op: the
\* call raises nothing and returns what it returns without the entry.
C4_AbsentColumnIsNoOp ==
    pc = "returned" =>
        \A key \in DOMAIN filters :
            FilterColumn(key) \notin df.cols =>
                /\ raised = "none"
                /\ filtered_df = apply_filters(df, Without(filters, key)).df

\* C5: when parsing the upload fails, load_and_process_data reports an error
\* and returns None, and nothing downstream runs in that pass.
C5_LoadErrorStopsThePass ==
    (/\ uploaded_file # None
     /\ ~uploaded_file.ok
     /\ "load_and_process_data" \in called) =>
        /\ df = None
        /\ "error: loading data" \in messages
        /\ called = {"load_and_process_data"}
        /\ filters = <<>> /\ filtered_df = None /\ metrics = <<>> /\ views = <<>>
        /\ display_columns = <<>>
        /\ pc = "done"

\* a failed load of a file that holds lines has ended the pass
C5_Witness ==
    /\ pc = "done"
    /\ uploaded_file # None
    /\ ~uploaded_file.ok
    /\ Len(uploaded_file.rows) > 0
    /\ df = None
    /\ "error: loading data" \in messages

\* C6: in a pass whose filtered table has no rows, nothing is raised, the
\* 'no data' message is shown, and no aggregate view, the scalar summary
\* included, is computed.
C6_EmptyResultSkipsAggregation ==
    (pc = "done" /\ filtered_df # None /\ Len(filtered_df.rows) = 0) =>
        /\ raised = "none"
        /\ "warning: no data" \in messages
        /\ "create_overview_metrics" \notin called
        /\ "create_visualizations" \notin called
        /\ metrics = <<>>
        /\ views = <<>>

\* the cleaning invariant of a table
Cleaned(t) ==
    \A i \in 1..Len(t.rows) :
        /\ \A c \in t.cols \cap categorical_cols : NotNa(t.rows[i][c])
        /\ "price_amount" \in t.cols => t.rows[i]["price_amount"].k \in {"num", "nan"}

\* C7: the loaded table has no missing entry in a present categorical column
\* and only numbers or missing values as prices, and so has the filtered table.
C7_CleanedTable ==
    /\ df # None => Cleaned(df)
    /\ filtered_df # None => Cleaned(filtered_df)

\* a pass over an upload with a non-numeric price and a missing brand in one
\* line, whose filtered table holds a filled-in colour
C7_Witness ==
    /\ pc = "done"
    /\ df # None
    /\ filtered_df # None
    /\ {"price_amount", "brand_name", "color"} \subseteq df.cols
    /\ \E i \in 1..Len(df.rows) :
          /\ uploaded_file.rows[i]["price_amount"] = "abc"
          /\ uploaded_file.rows[i]["brand_name"] = ""
          /\ df.rows[i]["price_amount"] = NaN
          /\ df.rows[i]["brand_name"] = Unknown
    /\ \E j \in 1..Len(filtered_df.rows) :
          /\ filtered_df.rows[j]["color"] = Unknown
          /\ filtered_df.rows[j]["price_amount"].k = "num"

\* C8: in a pass over an upload without a price_amount column the mean-price
\* metric reads 'N/A' and nothing is raised.
C8_NoPriceColumn ==
    (pc = "done" /\ df # None /\ "price_amount" \notin df.cols) =>
        /\ raised = "none"
        /\ "Average Price" \in DOMAIN metrics
        /\ metrics["Average Price"] = Str("N/A")

\* the number of rows of t with category c and price point p, both present
PairCount(t, c, p) ==
    Cardinality({i \in 1..Len(t.rows) :
        /\ NotNa(t.rows[i]["category_main"]) /\ NotNa(t.rows[i]["price_point"])
        /\ t.rows[i]["category_main"] = c /\ t.rows[i]["price_point"] = p})

\* C9: the cells of the category x price point cross-tabulation sum to the
\* number of rows with both values present, and each cell (an absent one
\* counting zero) is the number of rows with its pair.
C9_CrosstabCounts ==
    "category_price_data" \in DOMAIN views =>
        LET ct == views["category_price_data"]
            t == filtered_df
        IN /\ SumOver(ct.cell, DOMAIN ct.cell) =
                  Cardinality({i \in 1..Len(t.rows) :
                      NotNa(t.rows[i]["category_main"]) /\ NotNa(t.rows[i]["price_point"])})
           /\ \A c \in CatalogueValues("category_main"), p \in CatalogueValues("price_point") :
                  (IF <<c, p>> \in DOMAIN ct.cell THEN ct.cell[<<c, p>>] ELSE 0)
                      = PairCount(t, c, p)

\* a cross-tabulation with an empty cell beside filled ones
C9_Witness ==
    /\ "category_price_data" \in DOMAIN views
    /\ Len(filtered_df.rows) >= 2
    /\ \E pair \in DOMAIN views["category_price_data"].cell :
          views["category_price_data"].cell[pair] = 0
    /\ \E pair \in DOMAIN views["category_price_data"].cell :
          views["category_price_data"].cell[pair] >= 1

\* C10: in the sunburst data every parent node's value is the sum of its
\* children's values, and no two nodes share an id.
C10_RollupSumsAndDistinctIds ==
    "sunburst_data" \in DOMAIN views =>
        LET nodes == views["sunburst_data"]
            N == 1..Len(nodes)
        IN /\ \A i \in N :
                  nodes[i].parents = "" =>
                      nodes[i].values =
                          SumSeq([j \in N |-> IF nodes[j].parents = nodes[i].ids
                                               THEN nodes[j].values ELSE 0])
           /\ \A i, j \in N : i # j => nodes[i].ids # nodes[j].ids

-----------------------------------------------------------------------------
(* create_visualizations called as a function on tables with many groups *)

\* the columns of the wide tables
WideCols == {"brand_name", "category_main", "category_sub", "color", "price_amount"}

\* the columns a top-10 view groups by
GroupCols == {"brand_name", "category_sub", "color"}

\* the value of a grouping column in the tables that are wide in another one
NarrowValue(c) ==
    CASE c = "brand_name" -> Str("A")
      [] c = "category_sub" -> Str("Tops")
      [] c = "color" -> Str("Red")

\* a cleaned line of a table that is wide in column wide: the label there,
\* one value in the other grouping columns
LabelLine(wide, label, price) ==
    [c \in WideCols |->
        CASE c = "price_amount" -> Num(price)
          [] c = "category_main" -> Str("Men")
          [] c = wide -> Str(label)
          [] OTHER -> NarrowValue(c)]

RECURSIVE BaseLines(_, _)
\* the first n labels, the i-th on i lines priced 10 * i: n groups of
\* different sizes and different mean prices
BaseLines(wide, n) ==
    IF n = 0 THEN <<>>
    ELSE BaseLines(wide, n - 1) \o [k \in 1..n |-> LabelLine(wide, Labels[n], 10 * n)]

\* how many labels the base of a wide table holds
BaseSizes == {0, 1, TopK, Len(Labels)}

\* the prices of the further lines
ExtraPrices == {20, 30}

\* the labels of the further lines: the smallest groups, around the cut of
\* the twelve, and the largest
ExtraLabels == {"B01", "B02", "B03", "B12"}

\* the filtered tables handed to create_visualizations: many groups in one
\* grouping column; a base, then up to MaxRows further lines, which make
\* groups of equal size or equal mean; never empty (main tests len > 0) and
\* without missing prices (the price range filter has dropped them)
ViewTables ==
    {t \in {[cols |-> WideCols,
             rows |-> BaseLines(wide, n)
                      \o [i \in 1..Len(extra) |->
                             LabelLine(wide, extra[i][1], extra[i][2])]] :
               wide \in GroupCols,
               n \in BaseSizes,
               extra \in UNION {[1..m -> ExtraLabels \X ExtraPrices] : m \in 0..MaxRows}} :
        Len(t.rows) > 0}

InitViews ==
    /\ pc = "call"
    /\ filtered_df \in ViewTables
    /\ uploaded_file = None
    /\ df = None
    /\ filters = <<>>
    /\ called = {}
    /\ messages = {}
    /\ metrics = <<>>
    /\ views = <<>>
    /\ display_columns = <<>>
    /\ raised = "none"

\* create_visualizations(filtered_df)
CallCreateVisualizations ==
    /\ pc = "call"
    /\ \E built \in create_visualizations(filtered_df) : views' = built
    /\ called' = called \cup {"create_visualizations"}
    /\ pc' = "returned"
    /\ UNCHANGED <<uploaded_file, df, filters, filtered_df, messages, metrics,
                   display_columns, raised>>

NextViews == CallCreateVisualizations

SpecViews == InitViews /\ [][NextViews]_vars

-----------------------------------------------------------------------------
(* Properties of the top-10 views and of filtering twice *)

\* the column a top-10 view groups by
ViewColumn(name) ==
    CASE name \in {"brand_counts", "brand_avg_price"} -> "brand_name"
      [] name = "sub_category_counts" -> "category_sub"
      [] name \in {"color_counts", "color_price"} -> "color"

FrequencyViews == {"brand_counts", "sub_category_counts", "color_counts"}

MeanViews == {"brand_avg_price", "color_price"}

\* the rows of t in group g of column col
GroupRows(t, col, g) == {i \in 1..Len(t.rows) : t.rows[i][col] = g}

\* the metric of group g of t in the view: its row count, or the mean of its
\* prices as a fraction
GroupMetric(t, name, g) ==
    LET rows == GroupRows(t, ViewColumn(name), g) IN
    IF name \in FrequencyViews THEN <<Cardinality(rows), 1>>
    ELSE <<SumOver([i \in rows |-> t.rows[i]["price_amount"].v], rows), Cardinality(rows)>>

\* fractions: a >= b, a > b, a = b
FracGe(a, b) == a[1] * b[2] >= b[1] * a[2]

FracGt(a, b) == a[1] * b[2] > b[1] * a[2]

FracEq(a, b) == a[1] * b[2] = b[1] * a[2]

\* the listed metric of an entry of a view, as a fraction
Listed(e) == <<MetricNum(e.value), MetricDen(e.value)>>

\* one top-10 view of table t: at most 10 distinct groups of t, each with its
\* true metric, in non-increasing order, and no omitted group beats a listed one
TopViewOk(t, name, view) ==
    LET col == ViewColumn(name)
        N == 1..Len(view)
        listed == {view[i].key : i \in N}
        groups == Range(Column(t, col))
    IN /\ Len(view) <= 10
       /\ listed \subseteq groups
       /\ \A i, j \in N : i # j => view[i].key # view[j].key
       /\ \A i \in N : /\ NotNa(view[i].value)
                       /\ FracEq(Listed(view[i]), GroupMetric(t, name, view[i].key))
       /\ \A i, j \in N : i < j => FracGe(Listed(view[i]), Listed(view[j]))
       /\ \A g \in groups \ listed :
              \A i \in N : ~FracGt(GroupMetric(t, name, g), Listed(view[i]))
       /\ Len(view) = Min2(10, Cardinality(groups))

\* the scenario brand_name = [x, x, y], price_amount = [10, 20, 30]
IsScenario(t) ==
    /\ Len(t.rows) = 3
    /\ t.rows[1]["brand_name"] = t.rows[2]["brand_name"]
    /\ t.rows[3]["brand_name"] # t.rows[1]["brand_name"]
    /\ t.rows[1]["price_amount"] = Num(10)
    /\ t.rows[2]["price_amount"] = Num(20)
    /\ t.rows[3]["price_amount"] = Num(30)

\* C11: every top-10 view holds at most 10 groups, in non-increasing order of
\* its metric (row count, mean price), and omits no group whose metric is
\* greater than a listed one; brands [x, x, y] priced [10, 20, 30] give the
\* means y: 30, x: 15, in that order.
C11_TopTenViews ==
    /\ \A name \in (FrequencyViews \cup MeanViews) \cap DOMAIN views :
           TopViewOk(filtered_df, name, views[name])
    /\ ("brand_avg_price" \in DOMAIN views /\ IsScenario(filtered_df)) =>
           LET view == views["brand_avg_price"] IN
           /\ Len(view) = 2
           /\ view[1].key = filtered_df.rows[3]["brand_name"]
           /\ FracEq(Listed(view[1]), <<30, 1>>)
           /\ view[2].key = filtered_df.rows[1]["brand_name"]
           /\ FracEq(Listed(view[2]), <<15, 1>>)

\* a table of twelve brands, two of them of equal size at the cut: the
\* frequency view lists ten and leaves out a brand as large as its last, and
\* the mean view lists ten
C11_Witness ==
    /\ pc = "returned"
    /\ Cardinality(Range(Column(filtered_df, "brand_name"))) = 12
    /\ Len(views["brand_counts"]) = 10
    /\ Len(views["brand_avg_price"]) = 10
    /\ views["brand_counts"][1].key = Str("B12")
    /\ views["brand_counts"][10].key = Str("B02")
    /\ views["brand_counts"][10].value = Num(3)
    /\ Cardinality(GroupRows(filtered_df, "brand_name", Str("B03"))) = 3

\* C12: filtering is idempotent and leaves its input alone: a call of
\* apply_filters(T, F) that returns leaves T as it was, and filtering its
\* result with F again returns that result row for row.
C12_FilteringIsIdempotent ==
    [][(pc = "call" /\ pc' = "returned" /\ "apply_filters" \in called') =>
          /\ df' = df
          /\ filters' = filters
          /\ raised' = "none" =>
                 apply_filters(filtered_df', filters) = Outcome("none", filtered_df')]_vars

\* a call with a filter set that kept some rows of the table and dropped others
C12_Witness ==
    /\ pc = "returned"
    /\ "apply_filters" \in called
    /\ raised = "none"
    /\ Len(filtered_df.rows) > 0
    /\ Len(filtered_df.rows) < Len(df.rows)

====
